---- MODULE Spec2Model ----
(***************************************************************************)
(* GoQueue: the jobs table, the job repository (claim / release / retry /  *)
(* reap), the worker loop and the worker pool with its janitor.            *)
(*                                                                         *)
(* Time.  One unit of model time is 10 seconds.  Timestamps stored in a    *)
(* row (available_at, locked_at) are kept RELATIVE to the current wall     *)
(* clock: 0 is "now", -3 is "30 s ago", +1 is "10 s from now".  The action *)
(* Tick lets 10 s pass by shifting every stored timestamp by -1.  A        *)
(* timestamp older than every cutoff the code compares it with is clipped, *)
(* which keeps the state space finite without stopping the clock.          *)
(*                                                                         *)
(* SQL NULL / Go nil is the empty set, a present value x is {x}.           *)
(***************************************************************************)
EXTENDS Integers, Sequences, FiniteSets, TLC

\* ---------------------------------------------------------------- bounds
\* largest count given to NewWorkerPool(count, ...)
NumWorkers == 2
\* rows ever inserted into the jobs table
MaxJobs == 2
\* the dur argument of NewWorkerPool / AcquireNext (x 10 s)
LockDuration == 1
\* available_at older than this is clipped
AgeCap == 1
\* how far ahead a client schedules available_at
MaxSchedule == 1
\* longest an AcquireNext transaction stays open
MaxTxAge == 0
\* cap on the attempts column
MaxAttempts == 3
\* how many queues of the workers' list are in use
NumQueues == 2
\* rows already in the table when a worker process starts on a backlog
BacklogJobs == 3
\* rows inserted while the repository is driven call by call
RepoJobs == 1
\* successful claims of one job that are still counted
ClaimCap == 2
\* concurrent increment requests for one job
NumCalls == 3

\* ------------------------------------------------------ program constants
\* worker.go: time.Now().Add(10 * time.Second)
RetryDelay == 1
\* JobService.CreateJob: maxRetries = 3
DefaultMaxRetries == 3
\* net/http status codes the service puts in its errors
StatusBadRequest == 400
StatusNotFound == 404
StatusRequestTimeout == 408
StatusInternalServerError == 500

NULL == {}
Some(x) == {x}

Max(a, b) == IF a >= b THEN a ELSE b
Min(a, b) == IF a <= b THEN a ELSE b

\* worker ids a pool may hand out: NewWorkerPool numbers them 1 .. count
PoolIds == 1 .. NumWorkers

\* cmd/worker/main.go: queues := []string{"email", "payment", "default", "webhooks"}
MainQueues == <<"email", "payment", "default", "webhooks">>

\* the part of that list the model polls, in the same order
WorkerQueues == SubSeq(MainQueues, 1, Min(NumQueues, Len(MainQueues)))

\* config.AllowedQueues
AllowedQueues == {"default", "email", "webhooks", "payment"}

\* max_retries values the modelled clients send
ReqRetries == {1}

\* the queues the modelled clients submit to (within AllowedQueues)
ClientQueues == {WorkerQueues[i] : i \in 1 .. Len(WorkerQueues)} \cap AllowedQueues

\* config.JobStatus values, and the literal AcquireNext / ListStuckJobs use
JobStatusQueued    == "queued"
JobStatusRunning   == "running"
JobStatusFailed    == "failed"
JobStatusCompleted == "completed"
StatusProcessing   == "processing"

\* the pool's reaper threshold: p.lockDuration*2
StaleDuration == LockDuration * 2

\* oldest relative locked_at that is still told apart
LockFloor == 0 - (StaleDuration + 1)
\* oldest claim age that is still told apart
ClaimAgeCap == 3 * LockDuration + MaxTxAge + 1

VARIABLES
    jobs,      \* the jobs table: sequence of rows, id = index
    hist,      \* per job history: claims since last requeue, claim age
    workers,   \* per started worker: position in Worker.Start's loop and
               \* what it holds
    janitor,   \* WorkerPool.janitor: position and the stuck list it iterates
    calls,     \* the PUT /jobs/:id/increment requests in flight
    pool,      \* WorkerPool: its context and how far Stop has got
    backoff    \* per worker of the backoff study: currentDelay of
               \* Worker.Start and the sleep it is in

vars == <<jobs, hist, workers, janitor, calls, pool, backoff>>

JobIds == 1 .. Len(jobs)
Workers == DOMAIN workers

\* ------------------------------------------------------------- row locks
\* a plain SELECT: no row is ever found locked
RowLocked_NoLock(j) == FALSE

\* FOR UPDATE: the row selected by an open AcquireNext transaction is locked
\* until that transaction commits or rolls back.
RowLocked(j) == \E w \in Workers : workers[w].pc = "update" /\ workers[w].row = j

\* the WHERE clause without "available_at <= now"
Claimable_IgnoreAvailableAt(j, q) ==
    /\ jobs[j].queue = q
    /\ jobs[j].status = JobStatusQueued
    /\ \/ jobs[j].lockedAt = NULL
       \/ \E t \in jobs[j].lockedAt : t < 0 - LockDuration

\* ------------------------------------------------------------- AcquireNext
\* WHERE queue = ? AND status = 'queued' AND available_at <= now
\*   AND (locked_at IS NULL OR locked_at < now - lockDuration)
Claimable(j, q) ==
    /\ jobs[j].queue = q
    /\ jobs[j].status = JobStatusQueued
    /\ jobs[j].availableAt <= 0
    /\ \/ jobs[j].lockedAt = NULL
       \/ \E t \in jobs[j].lockedAt : t < 0 - LockDuration

\* ... FOR UPDATE SKIP LOCKED
Candidates(q) == {j \in JobIds : Claimable(j, q) /\ ~RowLocked(j)}

\* ORDER BY id ASC alone
Before_ByIdOnly(a, b) == a <= b

\* ORDER BY available_at ASC, id ASC
Before(a, b) ==
    \/ jobs[a].availableAt < jobs[b].availableAt
    \/ jobs[a].availableAt = jobs[b].availableAt /\ a <= b

\* LIMIT 1
FirstCandidate(q) == CHOOSE j \in Candidates(q) : \A k \in Candidates(q) : Before(j, k)

\* lockExpiry := now.Add(lockDuration), written into locked_at; now was read
\* txAge units before the UPDATE runs
LockedAtWritten(txAge) == LockDuration - txAge

\* tx.Model(&job).Updates({locked_at, locked_by, status})
ClaimRow(r, w, txAge) ==
    [r EXCEPT !.lockedAt = Some(LockedAtWritten(txAge)),
              !.lockedBy = Some(w),
              !.status = StatusProcessing]

\* Release that puts the status back and leaves the lock columns alone
ReleaseRow_KeepLock(r) == [r EXCEPT !.status = JobStatusQueued]

\* ------------------------------------------------- Release / RetryLater / ...
ReleaseRow(r) ==
    [r EXCEPT !.lockedAt = NULL, !.lockedBy = NULL, !.status = JobStatusQueued]

\* RetryLater that leaves locked_by as it is
RetryLaterRow_KeepOwner(r, availableAt) ==
    [r EXCEPT !.status = JobStatusQueued, !.availableAt = availableAt,
              !.lockedAt = NULL]

\* RetryLater that also counts the attempt
RetryLaterRow_CountAttempt(r, availableAt) ==
    [r EXCEPT !.status = JobStatusQueued, !.availableAt = availableAt,
              !.lockedAt = NULL, !.lockedBy = NULL, !.attempts = @ + 1]

RetryLaterRow(r, availableAt) ==
    [r EXCEPT !.status = JobStatusQueued, !.availableAt = availableAt,
              !.lockedAt = NULL, !.lockedBy = NULL]

\* MarkCompleted that writes status and result and leaves the lock columns
\* to a later statement
MarkCompletedRow_KeepLock(r, result) ==
    [r EXCEPT !.status = JobStatusCompleted, !.result = Some(result)]

MarkCompletedRow(r, result) ==
    [r EXCEPT !.status = JobStatusCompleted, !.result = Some(result),
              !.lockedAt = NULL, !.lockedBy = NULL]

\* a status write that also clears the lock columns
UpdateStatusRow_ClearLock(r, status) ==
    [r EXCEPT !.status = status, !.lockedAt = NULL, !.lockedBy = NULL]

UpdateStatusRow(r, status) == [r EXCEPT !.status = status]

IncrementAttemptsRow(r) == [r EXCEPT !.attempts = r.attempts + 1]

SaveResultRow(r, result, errMsg) == [r EXCEPT !.result = Some(result), !.error = errMsg]

\* the query with the status the tests seed, config.JobStatusRunning
StuckJobs_Running(staleDuration) ==
    {j \in JobIds : /\ jobs[j].status = JobStatusRunning
                    /\ \E t \in jobs[j].lockedAt : t < 0 - staleDuration}

\* WHERE status = 'processing' AND locked_at < now - staleDuration
StuckJobs(staleDuration) ==
    {j \in JobIds : /\ jobs[j].status = StatusProcessing
                    /\ \E t \in jobs[j].lockedAt : t < 0 - staleDuration}

\* the request's max_retries passed on without a default
ServiceMaxRetries_NoDefault(req) == req

\* JobService.CreateJob: maxRetries defaults to 3 when the request has 0
ServiceMaxRetries(req) == IF req = 0 THEN DefaultMaxRetries ELSE req

\* the job type and payload the modelled clients send
ClientType == "send_email"
ClientPayload == "{\"to\":\"a@example.com\",\"subject\":\"s\",\"body\":\"b\"}"

\* JobService.CreateJob: the models.Job handed to the repository; Status,
\* Attempts and the other fields keep their zero values, AvailableAt is the
\* zero time (NULL) unless the client set it
ServiceJob(queue, maxRetries, availableAt) ==
    [queue |-> queue, type |-> ClientType, payload |-> ClientPayload,
     status |-> "", attempts |-> 0, maxRetries |-> maxRetries,
     availableAt |-> availableAt,
     lockedAt |-> NULL, lockedBy |-> NULL, result |-> NULL, error |-> ""]

\* JobRepository.Create: status = "queued"; available_at = now when zero;
\* every other field is inserted as the caller passed it
CreateRow(job) ==
    [queue |-> job.queue, type |-> job.type, payload |-> job.payload,
     status |-> JobStatusQueued, attempts |-> job.attempts,
     maxRetries |-> job.maxRetries,
     availableAt |-> IF job.availableAt = NULL THEN 0
                     ELSE CHOOSE t \in job.availableAt : TRUE,
     lockedAt |-> job.lockedAt, lockedBy |-> job.lockedBy,
     result |-> job.result, error |-> job.error]

\* the row of a job submitted through the service
NewRow(queue, maxRetries, availableAt) ==
    CreateRow(ServiceJob(queue, maxRetries, availableAt))

NoHist == [claims |-> 0, claimAge |-> NULL]

\* a worker about to call pullJob; soon: its currentDelay is the 1 s it is
\* reset to after a job, so this pullJob runs before 10 s have passed
IdleWorker == [pc |-> "pull", qi |-> 1, row |-> 0, txAge |-> 0, job |-> 0,
               soon |-> FALSE]

\* NewWorkerPool(count, ...): workers 1 .. count
NewWorkerPool(count) == [w \in 1 .. count |-> IdleWorker]

IdleJanitor == [pc |-> "wait", stuck |-> {}]

\* no increment request in flight
NoCalls == << >>

\* no worker loop under the backoff study
NoBackoff == << >>

\* NewWorkerPool: ctx, cancel := context.WithCancel(...); Stop not called
RunningPool == [ctx |-> "live", stop |-> "no"]

\* a pool of any size up to NumWorkers started on an empty jobs table
Init ==
    /\ jobs = <<>>
    /\ hist = <<>>
    /\ \E count \in 1 .. NumWorkers : workers = NewWorkerPool(count)
    /\ janitor = IdleJanitor
    /\ calls = NoCalls
    /\ pool = RunningPool
    /\ backoff = NoBackoff

\* ------------------------------------------------------------------ client
\* POST /jobs/create -> JobService.CreateJob -> JobRepository.Create
CreateJob(q, reqRetries, availableAt) ==
    /\ Len(jobs) < MaxJobs
    /\ jobs' = Append(jobs, NewRow(q, ServiceMaxRetries(reqRetries), availableAt))
    /\ hist' = Append(hist, NoHist)
    /\ UNCHANGED <<workers, janitor, calls, pool, backoff>>

\* ------------------------------------------------------------------- clock
ShiftAvailable(t) == Max(t - 1, 0 - AgeCap)
ShiftLocked(l) == {Max(t - 1, LockFloor) : t \in l}
ShiftAge(a) == {Min(t + 1, ClaimAgeCap) : t \in a}

Tick ==
    /\ \A w \in Workers : workers[w].pc = "update" => workers[w].txAge < MaxTxAge
    /\ \A w \in Workers : ~(workers[w].pc = "pull" /\ workers[w].soon)
    /\ jobs' = [j \in JobIds |->
                  [jobs[j] EXCEPT !.availableAt = ShiftAvailable(@),
                                  !.lockedAt = ShiftLocked(@)]]
    /\ hist' = [j \in JobIds |-> [hist[j] EXCEPT !.claimAge = ShiftAge(@)]]
    /\ workers' = [w \in Workers |->
                     IF workers[w].pc = "update"
                     THEN [workers[w] EXCEPT !.txAge = @ + 1]
                     ELSE workers[w]]
    /\ UNCHANGED <<janitor, calls, pool, backoff>>

\* ------------------------------------------------------------------ worker
\* Worker.Start: after process, or after pullJob returned nil, the loop
\* sleeps currentDelay and starts over with the first queue.  The sleep is
\* a delay before the worker's next step, not a state of its own: after a
\* job it is 1 s (soon), after an empty pullJob it is 2 s .. 60 s.
NextIteration(wk, soon) ==
    [wk EXCEPT !.pc = "pull", !.qi = 1, !.row = 0, !.txAge = 0, !.job = 0,
               !.soon = soon]

\* Worker.pullJob, one queue of the list: after a miss go on to the next
\* queue; after the last queue pullJob returns nil.
AfterMiss(wk) ==
    IF wk.qi < Len(WorkerQueues)
    THEN [wk EXCEPT !.pc = "pull", !.qi = @ + 1, !.row = 0, !.txAge = 0]
    ELSE NextIteration(wk, FALSE)

\* the SELECT with FOR UPDATE but without SKIP LOCKED: it waits while the
\* first matching row is locked by another transaction
AcquireSelect_Waiting(w) ==
    /\ w \in Workers
    /\ workers[w].pc = "pull"
    /\ LET q == WorkerQueues[workers[w].qi]
           rows == {j \in JobIds : Claimable(j, q)}
       IN  IF rows # {}
           THEN LET j == CHOOSE a \in rows : \A b \in rows : Before(a, b) IN
                  /\ ~RowLocked(j)
                  /\ workers' = [workers EXCEPT ![w] =
                        [@ EXCEPT !.pc = "update", !.row = j, !.txAge = 0]]
           ELSE workers' = [workers EXCEPT ![w] = AfterMiss(@)]
    /\ UNCHANGED <<jobs, hist, janitor, calls, pool, backoff>>

\* AcquireNext, first half: now := time.Now(); BEGIN; SELECT ... FOR UPDATE
\* SKIP LOCKED.  A hit leaves the transaction open with the row locked;
\* a miss is "no jobs available".
AcquireSelect(w) ==
    /\ w \in Workers
    /\ workers[w].pc = "pull"
    /\ LET q == WorkerQueues[workers[w].qi] IN
         IF Candidates(q) # {}
         THEN workers' = [workers EXCEPT ![w] =
                [@ EXCEPT !.pc = "update", !.row = FirstCandidate(q), !.txAge = 0]]
         ELSE workers' = [workers EXCEPT ![w] = AfterMiss(@)]
    /\ UNCHANGED <<jobs, hist, janitor, calls, pool, backoff>>

\* AcquireNext, second half: UPDATE the locked row, COMMIT, return the job.
AcquireCommit(w) ==
    /\ w \in Workers
    /\ workers[w].pc = "update"
    /\ LET j == workers[w].row IN
         /\ jobs' = [jobs EXCEPT ![j] = ClaimRow(@, w, workers[w].txAge)]
         /\ hist' = [hist EXCEPT ![j] =
                [@ EXCEPT !.claims = Min(@ + 1, ClaimCap), !.claimAge = Some(0)]]
         /\ workers' = [workers EXCEPT ![w] =
                [@ EXCEPT !.pc = "exec", !.job = j, !.row = 0, !.txAge = 0,
                          !.qi = 1, !.soon = FALSE]]
    /\ UNCHANGED <<janitor, calls, pool, backoff>>

\* a pullJob that gives up at the first AcquireNext error instead of going
\* on to the next queue
AcquireError_GiveUp(w) ==
    /\ w \in Workers
    /\ workers[w].pc \in {"pull", "update"}
    /\ workers' = [workers EXCEPT ![w] = NextIteration(@, FALSE)]
    /\ UNCHANGED <<jobs, hist, janitor, calls, pool, backoff>>

\* AcquireNext fails with a store error (before the SELECT, or the UPDATE
\* fails and the transaction rolls back): pullJob drops the error.
AcquireError(w) ==
    /\ w \in Workers
    /\ workers[w].pc \in {"pull", "update"}
    /\ workers' = [workers EXCEPT ![w] = AfterMiss(@)]
    /\ UNCHANGED <<jobs, hist, janitor, calls, pool, backoff>>

\* Worker.process, handler returned a result: MarkCompleted(job.ID, result)
ProcessSuccess(w) ==
    /\ w \in Workers
    /\ workers[w].pc = "exec"
    /\ LET j == workers[w].job IN
         /\ ~RowLocked(j)
         /\ jobs' = [jobs EXCEPT ![j] = MarkCompletedRow(@, "ok")]
         /\ hist' = [hist EXCEPT ![j] = [@ EXCEPT !.claimAge = NULL]]
    /\ workers' = [workers EXCEPT ![w] = NextIteration(@, TRUE)]
    /\ UNCHANGED <<janitor, calls, pool, backoff>>

\* Worker.process, handler returned an error:
\* RetryLater(job.ID, time.Now().Add(10 * time.Second))
ProcessFailure(w) ==
    /\ w \in Workers
    /\ workers[w].pc = "exec"
    /\ LET j == workers[w].job IN
         /\ ~RowLocked(j)
         /\ jobs' = [jobs EXCEPT ![j] = RetryLaterRow(@, RetryDelay)]
         /\ hist' = [hist EXCEPT ![j] = [@ EXCEPT !.claims = 0, !.claimAge = NULL]]
    /\ workers' = [workers EXCEPT ![w] = NextIteration(@, TRUE)]
    /\ UNCHANGED <<janitor, calls, pool, backoff>>

\* Worker.process, the MarkCompleted / RetryLater call returns a store
\* error: process ignores it, the row is untouched.
ProcessStoreError(w) ==
    /\ w \in Workers
    /\ workers[w].pc = "exec"
    /\ workers' = [workers EXCEPT ![w] = NextIteration(@, TRUE)]
    /\ UNCHANGED <<jobs, hist, janitor, calls, pool, backoff>>

\* A worker dies in the middle of a handler and never finalizes its job.
Crash(w) ==
    /\ w \in Workers
    /\ workers[w].pc = "exec"
    /\ workers' = [workers EXCEPT ![w] = [@ EXCEPT !.pc = "crashed", !.job = 0]]
    /\ UNCHANGED <<jobs, hist, janitor, calls, pool, backoff>>

\* ----------------------------------------------------------------- janitor
\* case <-ticker.C: stuck, _ := ListStuckJobs(ctx, lockDuration*2)
\* The ticker is kept abstract: the pool may have been started at any time,
\* so a tick may fall at any moment, and ticks keep coming.  A tick on which
\* ListStuckJobs returns an error leaves stuck nil and changes nothing.
JanitorList ==
    /\ janitor.pc = "wait"
    /\ LET stuck == StuckJobs(StaleDuration) IN
         janitor' = [pc |-> IF stuck = {} THEN "wait" ELSE "release", stuck |-> stuck]
    /\ UNCHANGED <<jobs, hist, workers, calls, pool, backoff>>

AfterRelease(j) ==
    [pc |-> IF janitor.stuck \ {j} = {} THEN "wait" ELSE "release",
     stuck |-> janitor.stuck \ {j}]

\* for _, j := range stuck { p.jobRepo.Release(p.ctx, j.ID) }
JanitorRelease(j) ==
    /\ janitor.pc = "release"
    /\ j \in janitor.stuck
    /\ ~RowLocked(j)
    /\ jobs' = [jobs EXCEPT ![j] = ReleaseRow(@)]
    /\ hist' = [hist EXCEPT ![j] = [@ EXCEPT !.claims = 0, !.claimAge = NULL]]
    /\ janitor' = AfterRelease(j)
    /\ UNCHANGED <<workers, calls, pool, backoff>>

\* Release returns a store error, which the loop ignores
JanitorReleaseError(j) ==
    /\ janitor.pc = "release"
    /\ j \in janitor.stuck
    /\ janitor' = AfterRelease(j)
    /\ UNCHANGED <<jobs, hist, workers, calls, pool, backoff>>

\* -------------------------------------------------------------------- pool
ClientStep ==
    \E q \in ClientQueues, r \in ReqRetries, a \in {NULL, Some(MaxSchedule)} :
        CreateJob(q, r, a)

WorkerStep(w) ==
    \/ AcquireSelect(w)
    \/ AcquireCommit(w)
    \/ AcquireError(w)
    \/ ProcessSuccess(w)
    \/ ProcessFailure(w)
    \/ ProcessStoreError(w)
    \/ Crash(w)

JanitorStep ==
    \/ JanitorList
    \/ \E j \in JobIds : JanitorRelease(j)
    \/ \E j \in JobIds : JanitorReleaseError(j)

\* the worker processes and their janitor, without the API's clients
PoolStep ==
    \/ Tick
    \/ \E w \in PoolIds : WorkerStep(w)
    \/ JanitorStep

Next ==
    \/ ClientStep
    \/ PoolStep

Spec == Init /\ [][Next]_vars

\* -------------------------------------------------------------- repository
\* The repository driven call by call, as the HTTP handlers and the
\* integration tests drive it: every method is one statement or one
\* transaction, and no worker pool is running.
RepoStatuses ==
    {JobStatusQueued, JobStatusRunning, JobStatusFailed, JobStatusCompleted,
     StatusProcessing}

RepoInit ==
    /\ jobs = <<>>
    /\ hist = <<>>
    /\ workers = NewWorkerPool(0)
    /\ janitor = IdleJanitor
    /\ calls = NoCalls
    /\ pool = RunningPool
    /\ backoff = NoBackoff

\* the jobs the callers of the repository pass to Create: the service's,
\* and jobs with another type and payload, a status and attempts already in
\* them (as the fixtures of the repository tests have)
CallerJobs ==
    {[ServiceJob(q, r, a) EXCEPT !.type = tp[1], !.payload = tp[2],
                                 !.status = s, !.attempts = n] :
        q \in ClientQueues, r \in ReqRetries, a \in {NULL, Some(MaxSchedule)},
        tp \in {<<ClientType, ClientPayload>>, <<"process_payment", "{\"amount\":1}">>},
        s \in {"", JobStatusCompleted}, n \in {0, 1}}

\* JobRepository.Get: the row with that id, or "job not found" (NULL)
Get(id) == IF id \in JobIds THEN Some(jobs[id]) ELSE NULL

RepoCreate(job) ==
    /\ Len(jobs) < RepoJobs
    /\ jobs' = Append(jobs, CreateRow(job))
    /\ hist' = Append(hist, NoHist)
    /\ UNCHANGED <<workers, janitor, calls, pool, backoff>>

\* AcquireNext(queue, workerID, lockDuration) as one transaction
RepoAcquireNext(q, workerID) ==
    /\ Candidates(q) # {}
    /\ LET j == FirstCandidate(q) IN
         /\ jobs' = [jobs EXCEPT ![j] = ClaimRow(@, workerID, 0)]
         /\ hist' = [hist EXCEPT ![j] =
                [@ EXCEPT !.claims = Min(@ + 1, ClaimCap), !.claimAge = Some(0)]]
    /\ UNCHANGED <<workers, janitor, calls, pool, backoff>>

\* an UPDATE that matches no row reported as an error, the way Get reports
\* gorm.ErrRecordNotFound
UpdateWhereIdErr_NotFound(id) == IF id \in JobIds THEN "" ELSE "job not found"

\* ids a caller may pass: those of the rows and one that matches no row
RepoIds == 1 .. RepoJobs + 1

\* the error of db.Model(&models.Job{}).Where("id = ?", id).Update(s)(...):
\* an UPDATE that matches no row is not an error (a failing store is not
\* part of this specification)
UpdateWhereIdErr(id) == ""

\* the table after UPDATE jobs SET locked_at = NULL, locked_by = NULL,
\* status = 'queued' WHERE id = ?
ReleaseTable(id) ==
    [j \in JobIds |-> IF j = id THEN ReleaseRow(jobs[j]) ELSE jobs[j]]

\* ... SET status = 'queued', available_at = ?, locked_at = NULL,
\* locked_by = NULL WHERE id = ?
RetryLaterTable(id, availableAt) ==
    [j \in JobIds |-> IF j = id THEN RetryLaterRow(jobs[j], availableAt) ELSE jobs[j]]

\* ... SET attempts = attempts + 1 WHERE id = ?
IncrementAttemptsTable(id) ==
    [j \in JobIds |-> IF j = id THEN IncrementAttemptsRow(jobs[j]) ELSE jobs[j]]

\* the claim history of a row put back to queued
Unclaimed(id) ==
    [j \in JobIds |->
        IF j = id THEN [hist[j] EXCEPT !.claims = 0, !.claimAge = NULL] ELSE hist[j]]

RepoRelease(id) ==
    /\ UpdateWhereIdErr(id) = ""
    /\ jobs' = ReleaseTable(id)
    /\ hist' = Unclaimed(id)
    /\ UNCHANGED <<workers, janitor, calls, pool, backoff>>

RepoRetryLater(id, availableAt) ==
    /\ UpdateWhereIdErr(id) = ""
    /\ jobs' = RetryLaterTable(id, availableAt)
    /\ hist' = Unclaimed(id)
    /\ UNCHANGED <<workers, janitor, calls, pool, backoff>>

RepoMarkCompleted(j, result) ==
    /\ jobs' = [jobs EXCEPT ![j] = MarkCompletedRow(@, result)]
    /\ hist' = [hist EXCEPT ![j] = [@ EXCEPT !.claimAge = NULL]]
    /\ UNCHANGED <<workers, janitor, calls, pool, backoff>>

RepoUpdateStatus(j, status) ==
    /\ jobs' = [jobs EXCEPT ![j] = UpdateStatusRow(@, status)]
    /\ UNCHANGED <<hist, workers, janitor, calls, pool, backoff>>

RepoIncrementAttempts(id) ==
    /\ UpdateWhereIdErr(id) = ""
    /\ id \in JobIds => jobs[id].attempts < MaxAttempts
    /\ jobs' = IncrementAttemptsTable(id)
    /\ UNCHANGED <<hist, workers, janitor, calls, pool, backoff>>

RepoSaveResult(j, result, errMsg) ==
    /\ jobs' = [jobs EXCEPT ![j] = SaveResultRow(@, result, errMsg)]
    /\ UNCHANGED <<hist, workers, janitor, calls, pool, backoff>>

RepoStep ==
    \/ \E job \in CallerJobs : RepoCreate(job)
    \/ \E q \in ClientQueues, workerID \in PoolIds : RepoAcquireNext(q, workerID)
    \/ \E id \in RepoIds : RepoRelease(id)
    \/ \E id \in RepoIds : RepoRetryLater(id, RetryDelay)
    \/ \E j \in JobIds, result \in {"ok", "sent"} : RepoMarkCompleted(j, result)
    \/ \E j \in JobIds, status \in RepoStatuses : RepoUpdateStatus(j, status)
    \/ \E id \in RepoIds : RepoIncrementAttempts(id)
    \/ \E j \in JobIds, errMsg \in {"", "boom"} : RepoSaveResult(j, "ok", errMsg)
    \/ Tick

SpecRepo == RepoInit /\ [][RepoStep]_vars

\* rows in the states the single-row writes meet: fresh, claimed by worker
\* 1, claimed with an attempt counted and a result and error saved, and
\* completed
FrameRows ==
    LET fresh == NewRow(WorkerQueues[1], ServiceMaxRetries(0), NULL)
        claimed == ClaimRow(fresh, 1, 0)
    IN  {fresh, claimed,
         SaveResultRow(IncrementAttemptsRow(claimed), "ok", "boom"),
         MarkCompletedRow(claimed, "ok")}

\* a table of two such rows
FrameInit ==
    /\ jobs \in [1 .. 2 -> FrameRows]
    /\ hist = [i \in 1 .. 2 |-> NoHist]
    /\ workers = NewWorkerPool(0)
    /\ janitor = IdleJanitor
    /\ calls = NoCalls
    /\ pool = RunningPool
    /\ backoff = NoBackoff

\* the repository's writes WHERE id = ?, called one after another
FrameStep ==
    \/ \E j \in JobIds, status \in RepoStatuses : RepoUpdateStatus(j, status)
    \/ \E id \in RepoIds, availableAt \in {0, RetryDelay} :
          RepoRetryLater(id, availableAt)
    \/ \E id \in RepoIds : RepoIncrementAttempts(id)
    \/ \E j \in JobIds, errMsg \in {"", "boom"} : RepoSaveResult(j, "ok", errMsg)

FrameSpec == FrameInit /\ [][FrameStep]_vars

\* ------------------------------------------------- concurrent increments
\* the row an increment request writes when its UPDATE is built from the
\* attempts the application read when the request came in
IncrementCallRow_ReadModifyWrite(r, seen) == [r EXCEPT !.attempts = seen + 1]

\* the row an increment request writes: Update("attempts",
\* gorm.Expr("attempts + ?", 1)) is evaluated by the store on the row as it
\* is when the statement runs, whatever it was (seen) when the request came
\* in
IncrementCallRow(r, seen) == IncrementAttemptsRow(r)

\* n requests for the same job id, none started yet
NewCalls(n, id) == [c \in 1 .. n |-> [pc |-> "new", id |-> id, seen |-> 0]]

\* two jobs as the service creates them, and up to NumCalls requests to
\* increment the attempts of one of them
IncInit ==
    /\ jobs = [i \in 1 .. 2 |-> NewRow(WorkerQueues[1], ServiceMaxRetries(0), NULL)]
    /\ hist = [i \in 1 .. 2 |-> NoHist]
    /\ workers = NewWorkerPool(0)
    /\ janitor = IdleJanitor
    /\ \E n \in 1 .. NumCalls, id \in 1 .. 2 : calls = NewCalls(n, id)
    /\ pool = RunningPool
    /\ backoff = NoBackoff

\* JobHandler.Increment -> JobService.IncrementAttempts: the request is
\* accepted (id parsed, ctx.Err() is nil); seen records the attempts of the
\* row at that moment
IncrementBegin(c) ==
    /\ c \in DOMAIN calls
    /\ calls[c].pc = "new"
    /\ calls' = [calls EXCEPT ![c] =
                    [@ EXCEPT !.pc = "update", !.seen = jobs[calls[c].id].attempts]]
    /\ UNCHANGED <<jobs, hist, workers, janitor, pool, backoff>>

\* JobRepository.IncrementAttempts: the UPDATE runs and the call returns nil
IncrementReturn(c) ==
    /\ c \in DOMAIN calls
    /\ calls[c].pc = "update"
    /\ jobs' = [j \in JobIds |->
                  IF j = calls[c].id THEN IncrementCallRow(jobs[j], calls[c].seen)
                  ELSE jobs[j]]
    /\ calls' = [calls EXCEPT ![c] = [@ EXCEPT !.pc = "done"]]
    /\ UNCHANGED <<hist, workers, janitor, pool, backoff>>

IncStep == \E c \in 1 .. NumCalls : IncrementBegin(c) \/ IncrementReturn(c)

IncSpec == IncInit /\ [][IncStep]_vars

\* ----------------------------------------------------------------- service
\* config.AllowedJobTypes
AllowedJobTypes == {"send_email", "process_payment", "send_webhook"}

\* payload texts of the modelled requests: one that is not JSON, an object
\* without the fields any type requires, a send_email payload and a
\* process_payment payload
PayloadNotJSON == "{to:"
PayloadEmpty == "{}"
PaymentPayload == "{\"payment_id\":\"p1\",\"amount\":1,\"currency\":\"USD\"}"

\* json.Valid(dto.Payload)
JSONValid(p) == p \in {PayloadEmpty, ClientPayload, PaymentPayload}

\* validatePayload[T](raw) = nil: the text unmarshals into the type's
\* payload struct and validate.Struct accepts it
PayloadFits(type, p) ==
    \/ type = "send_email" /\ p = ClientPayload
    \/ type = "process_payment" /\ p = PaymentPayload

\* the checks without the per-type payload schema
ValidationError_NoSchema(dto) ==
    IF ~JSONValid(dto.payload) THEN Some(StatusBadRequest)
    ELSE IF dto.queue \notin AllowedQueues THEN Some(StatusBadRequest)
    ELSE IF dto.type \notin AllowedJobTypes THEN Some(StatusBadRequest)
    ELSE NULL

\* the checks of JobService.CreateJob in their order: the error of the first
\* one that fails, NULL when the request passes them all
ValidationError(dto) ==
    IF ~JSONValid(dto.payload) THEN Some(StatusBadRequest)
    ELSE IF dto.queue \notin AllowedQueues THEN Some(StatusBadRequest)
    ELSE IF dto.type \notin AllowedJobTypes THEN Some(StatusBadRequest)
    ELSE IF ~PayloadFits(dto.type, dto.payload) THEN Some(StatusBadRequest)
    ELSE NULL

\* errors the repository can return to the service: the context's
\* ("canceled", "deadline"), gorm.ErrRecordNotFound wrapped by Get
\* ("notfound") and any other store error ("other"); "" is nil
RepoErrors == {"", "canceled", "deadline", "other"}

\* every repository error answered as an internal error
MapRepoErr_AllInternal(e) == StatusInternalServerError

\* errors.Is(err, context.Canceled) || errors.Is(err, context.DeadlineExceeded)
\* -> 408, anything else -> 500
MapRepoErr(e) ==
    IF e \in {"canceled", "deadline"} THEN StatusRequestTimeout
    ELSE StatusInternalServerError

\* GetJobByID: the context's errors -> 408, gorm.ErrRecordNotFound or a text
\* holding "job not found" -> 404, anything else -> 500
MapGetErr(e) ==
    IF e \in {"canceled", "deadline"} THEN StatusRequestTimeout
    ELSE IF e = "notfound" THEN StatusNotFound
    ELSE StatusInternalServerError

\* job := models.Job{Queue, Type, Payload, MaxRetries}; AvailableAt only when
\* the request has one
ServiceJobOf(dto) ==
    [ServiceJob(dto.queue, ServiceMaxRetries(dto.maxRetries), dto.availableAt)
        EXCEPT !.type = dto.type, !.payload = dto.payload]

\* the requests of the modelled clients
CreateDTOs ==
    [queue : {"email", "reports"},
     type : {"send_email", "process_payment", "export"},
     payload : {PayloadNotJSON, PayloadEmpty, ClientPayload, PaymentPayload},
     maxRetries : {0, 2},
     availableAt : {NULL, Some(MaxSchedule)}]

\* the service with an empty table behind it and no request answered yet
ServiceInit ==
    /\ jobs = <<>>
    /\ hist = <<>>
    /\ workers = NewWorkerPool(0)
    /\ janitor = IdleJanitor
    /\ calls = NoCalls
    /\ pool = RunningPool
    /\ backoff = NoBackoff

\* JobService.CreateJob(ctx, dto).  ctxErr: ctx.Err() at entry; repoErr: what
\* repo.Create returns if it is called.  calls keeps the request and its
\* answer: err is the status of the returned error (NULL for nil), passed
\* the job handed to repo.Create (NULL when Create was not called).
ServiceCreateJob(dto, ctxErr, repoErr) ==
    LET verr == ValidationError(dto)
        called == ctxErr = "" /\ verr = NULL
        stored == called /\ repoErr = ""
        err == IF ctxErr # "" THEN Some(StatusRequestTimeout)
               ELSE IF verr # NULL THEN verr
               ELSE IF repoErr # "" THEN Some(MapRepoErr(repoErr))
               ELSE NULL
    IN  /\ stored => Len(jobs) < RepoJobs
        /\ jobs' = IF stored THEN Append(jobs, CreateRow(ServiceJobOf(dto))) ELSE jobs
        /\ hist' = IF stored THEN Append(hist, NoHist) ELSE hist
        /\ calls' = << [op |-> "CreateJob", dto |-> dto, ctxErr |-> ctxErr,
                        repoErr |-> IF called THEN repoErr ELSE "",
                        err |-> err,
                        passed |-> IF called THEN Some(ServiceJobOf(dto)) ELSE NULL] >>
        /\ UNCHANGED <<workers, janitor, pool, backoff>>

\* dto.JobResponseDTO built from a row: the fields the service copies
JobResponse(r) ==
    [queue |-> r.queue, type |-> r.type, payload |-> r.payload,
     status |-> r.status, attempts |-> r.attempts,
     maxRetries |-> r.maxRetries, result |-> r.result, error |-> r.error]

\* what repo.Get returns as its error: the injected one, else the wrapped
\* gorm.ErrRecordNotFound when no row has the id
GetErr(id, repoErr) ==
    IF repoErr # "" THEN repoErr
    ELSE IF Get(id) = NULL THEN "notfound"
    ELSE ""

\* the answer of a service operation that maps repository errors with
\* MapRepoErr: 408 on a context already done, else the mapped repository
\* error, else nil
ServiceErr(ctxErr, repoErr) ==
    IF ctxErr # "" THEN Some(StatusRequestTimeout)
    ELSE IF repoErr # "" THEN Some(MapRepoErr(repoErr))
    ELSE NULL

\* JobService.GetJobByID(ctx, id)
ServiceGetJobByID(id, ctxErr, repoErr) ==
    LET e == GetErr(id, repoErr)
        err == IF ctxErr # "" THEN Some(StatusRequestTimeout)
               ELSE IF e # "" THEN Some(MapGetErr(e))
               ELSE NULL
    IN  /\ calls' = << [op |-> "GetJobByID", id |-> id, ctxErr |-> ctxErr,
                        repoErr |-> IF ctxErr = "" THEN e ELSE "",
                        err |-> err,
                        got |-> IF err = NULL THEN Some(JobResponse(jobs[id]))
                                ELSE NULL] >>
        /\ UNCHANGED <<jobs, hist, workers, janitor, pool, backoff>>

\* UPDATE jobs SET status = ? WHERE id = ?
UpdateStatusTable(id, status) ==
    [j \in JobIds |-> IF j = id THEN UpdateStatusRow(jobs[j], status) ELSE jobs[j]]

\* UPDATE jobs SET result = ?, error = ? WHERE id = ?
SaveResultTable(id, result, errMsg) ==
    [j \in JobIds |-> IF j = id THEN SaveResultRow(jobs[j], result, errMsg)
                      ELSE jobs[j]]

\* status texts the clients of PUT /jobs/:id/status send: the four of
\* config and one that is none of them (the body is only `required`)
ClientStatuses ==
    {JobStatusQueued, JobStatusRunning, JobStatusCompleted, JobStatusFailed,
     "paused"}

\* JobService.UpdateStatus(ctx, id, status)
ServiceUpdateStatus(id, status, ctxErr, repoErr) ==
    LET err == ServiceErr(ctxErr, repoErr)
    IN  /\ jobs' = IF err = NULL THEN UpdateStatusTable(id, status) ELSE jobs
        /\ calls' = << [op |-> "UpdateStatus", id |-> id, status |-> status,
                        ctxErr |-> ctxErr,
                        repoErr |-> IF ctxErr = "" THEN repoErr ELSE "",
                        err |-> err] >>
        /\ UNCHANGED <<hist, workers, janitor, pool, backoff>>

\* JobService.IncrementAttempts(ctx, id)
ServiceIncrementAttempts(id, ctxErr, repoErr) ==
    LET err == ServiceErr(ctxErr, repoErr)
    IN  /\ (err = NULL /\ id \in JobIds) => jobs[id].attempts < MaxAttempts
        /\ jobs' = IF err = NULL THEN IncrementAttemptsTable(id) ELSE jobs
        /\ calls' = << [op |-> "IncrementAttempts", id |-> id,
                        ctxErr |-> ctxErr,
                        repoErr |-> IF ctxErr = "" THEN repoErr ELSE "",
                        err |-> err] >>
        /\ UNCHANGED <<hist, workers, janitor, pool, backoff>>

\* JobService.SaveResult(ctx, id, result, errMsg)
ServiceSaveResult(id, result, errMsg, ctxErr, repoErr) ==
    LET err == ServiceErr(ctxErr, repoErr)
    IN  /\ jobs' = IF err = NULL THEN SaveResultTable(id, result, errMsg) ELSE jobs
        /\ calls' = << [op |-> "SaveResult", id |-> id, ctxErr |-> ctxErr,
                        repoErr |-> IF ctxErr = "" THEN repoErr ELSE "",
                        err |-> err] >>
        /\ UNCHANGED <<hist, workers, janitor, pool, backoff>>

\* JobService.ListJobs(ctx, queue): the rows WHERE queue = ?, as responses
ServiceListJobs(queue, ctxErr, repoErr) ==
    LET err == ServiceErr(ctxErr, repoErr)
    IN  /\ calls' = << [op |-> "ListJobs", queue |-> queue, ctxErr |-> ctxErr,
                        repoErr |-> IF ctxErr = "" THEN repoErr ELSE "",
                        err |-> err,
                        got |-> IF err = NULL
                                THEN {j \in JobIds : jobs[j].queue = queue}
                                ELSE {}] >>
        /\ UNCHANGED <<jobs, hist, workers, janitor, pool, backoff>>

ServiceStep ==
    \/ \E dto \in CreateDTOs, ctxErr \in {"", "canceled"}, repoErr \in RepoErrors :
          ServiceCreateJob(dto, ctxErr, repoErr)

ServiceSpec == ServiceInit /\ [][ServiceStep]_vars

\* requests that pass every check of CreateJob
ValidDTOs == {dto \in CreateDTOs : ValidationError(dto) = NULL /\ dto.maxRetries = 0}

\* ctx.Err() when a service operation is entered
CtxErrors == {"", "canceled", "deadline"}

\* the results workers and clients save: (result, error message)
SavedResults == {<<"ok", "">>, <<"", "boom">>}

\* every operation of the service, called one after another by the HTTP
\* handlers, each with any context state and any repository outcome
ServiceOpsStep ==
    \/ \E dto \in ValidDTOs, ctxErr \in CtxErrors, repoErr \in RepoErrors :
          ServiceCreateJob(dto, ctxErr, repoErr)
    \/ \E id \in RepoIds, ctxErr \in CtxErrors, repoErr \in RepoErrors :
          \/ ServiceGetJobByID(id, ctxErr, repoErr)
          \/ \E status \in ClientStatuses :
                ServiceUpdateStatus(id, status, ctxErr, repoErr)
          \/ ServiceIncrementAttempts(id, ctxErr, repoErr)
          \/ \E res \in SavedResults :
                ServiceSaveResult(id, res[1], res[2], ctxErr, repoErr)
    \/ \E queue \in {"email", "reports"}, ctxErr \in CtxErrors,
          repoErr \in RepoErrors :
          ServiceListJobs(queue, ctxErr, repoErr)

ServiceOpsSpec == ServiceInit /\ [][ServiceOpsStep]_vars

\* ---------------------------------------------------------------- backlog
\* The worker process is a binary of its own (cmd/worker): it can be started
\* on a table that already holds queued jobs the API accepted earlier.  Here:
\* a one-worker pool, BacklogJobs - 1 jobs waiting in the workers' first
\* queue and one job in their last queue.
BacklogQueue(i) ==
    IF i < BacklogJobs THEN WorkerQueues[1] ELSE WorkerQueues[Len(WorkerQueues)]

BacklogInit ==
    /\ jobs = [i \in 1 .. BacklogJobs |->
                 NewRow(BacklogQueue(i), ServiceMaxRetries(0), NULL)]
    /\ hist = [i \in 1 .. BacklogJobs |-> NoHist]
    /\ workers = NewWorkerPool(1)
    /\ janitor = IdleJanitor
    /\ calls = NoCalls
    /\ pool = RunningPool
    /\ backoff = NoBackoff

\* the pool while the store answers every call and no worker dies
HealthyStep ==
    \/ Tick
    \/ \E w \in PoolIds : \/ AcquireSelect(w)
                          \/ AcquireCommit(w)
                          \/ ProcessSuccess(w)
                          \/ ProcessFailure(w)
    \/ JanitorList
    \/ \E j \in JobIds : JanitorRelease(j)

BacklogSpec == BacklogInit /\ [][HealthyStep]_vars

\* a one-worker pool started on an empty table, with the API's clients
SoloInit ==
    /\ jobs = <<>>
    /\ hist = <<>>
    /\ workers = NewWorkerPool(1)
    /\ janitor = IdleJanitor
    /\ calls = NoCalls
    /\ pool = RunningPool
    /\ backoff = NoBackoff

SoloSpec == SoloInit /\ [][Next]_vars

\* max_retries values of jobs a producer stores through JobRepository.Create
\* itself, where no default replaces 0
SeedRetries == {0, 1}

\* a one-worker pool started on a table of two jobs stored that way
SeededInit ==
    /\ \E r \in SeedRetries :
          jobs = [i \in 1 .. 2 |-> CreateRow(ServiceJob(WorkerQueues[1], r, NULL))]
    /\ hist = [i \in 1 .. 2 |-> NoHist]
    /\ workers = NewWorkerPool(1)
    /\ janitor = IdleJanitor
    /\ calls = NoCalls
    /\ pool = RunningPool
    /\ backoff = NoBackoff

SeededSpec == SeededInit /\ [][HealthyStep]_vars

\* ---------------------------------------------------------------- shutdown
\* WorkerPool.Stop, first part: p.cancel() cancels the context every worker
\* and the janitor were started with, and the loop closes each worker's
\* quit channel; Stop then waits in p.wg.Wait()
StopCancel ==
    /\ pool.stop = "no"
    /\ pool' = [ctx |-> "canceled", stop |-> "waiting"]
    /\ UNCHANGED <<jobs, hist, workers, janitor, calls, backoff>>

\* WorkerPool.Stop, second part: p.wg.Wait() returns.  The WaitGroup counts
\* the janitor only (p.wg.Add(1) in Start); Worker.Start's goroutines are
\* not added to it.
StopReturn ==
    /\ pool.stop = "waiting"
    /\ janitor.pc = "stopped"
    /\ pool' = [pool EXCEPT !.stop = "returned"]
    /\ UNCHANGED <<jobs, hist, workers, janitor, calls, backoff>>

\* janitor: case <-p.ctx.Done(): return (with defer p.wg.Done())
JanitorExit ==
    /\ pool.ctx = "canceled"
    /\ janitor.pc = "wait"
    /\ janitor' = [pc |-> "stopped", stuck |-> {}]
    /\ UNCHANGED <<jobs, hist, workers, calls, pool, backoff>>

\* Worker.Start: in the select after an iteration, case <-w.quit or
\* case <-ctx.Done(): return
WorkerExit(w) ==
    /\ w \in Workers
    /\ pool.ctx = "canceled"
    /\ workers[w].pc = "pull"
    /\ workers[w].qi = 1
    /\ workers' = [workers EXCEPT ![w] = [@ EXCEPT !.pc = "stopped", !.soon = FALSE]]
    /\ UNCHANGED <<jobs, hist, janitor, calls, pool, backoff>>

\* Worker.process when the context is canceled while the handler runs: the
\* handler returns ctx.Err(), process calls RetryLater(ctx, job.ID, nextRun)
\* with the canceled context (MarkCompleted(ctx, ...) if the handler's timer
\* won the select); the store call fails with "context canceled", the error
\* is ignored and the row stays as it is
ProcessCanceled(w) ==
    /\ pool.ctx = "canceled"
    /\ ProcessStoreError(w)

\* AcquireNext with the canceled context fails; pullJob drops the error
AcquireCanceled(w) ==
    /\ pool.ctx = "canceled"
    /\ AcquireError(w)

\* the janitor's Release(p.ctx, id) calls fail once the context is canceled
JanitorReleaseCanceled(j) ==
    /\ pool.ctx = "canceled"
    /\ JanitorReleaseError(j)

\* a pool of up to NumWorkers workers started on a table of two jobs
ShutdownInit ==
    /\ jobs = [i \in 1 .. 2 |-> NewRow(WorkerQueues[1], ServiceMaxRetries(0), NULL)]
    /\ hist = [i \in 1 .. 2 |-> NoHist]
    /\ \E count \in 1 .. NumWorkers : workers = NewWorkerPool(count)
    /\ janitor = IdleJanitor
    /\ calls = NoCalls
    /\ pool = RunningPool
    /\ backoff = NoBackoff

\* the pool runs until Stop is called, then winds down
ShutdownStep ==
    \/ pool.ctx = "live" /\ HealthyStep
    \/ StopCancel
    \/ StopReturn
    \/ JanitorExit
    \/ \E w \in PoolIds : WorkerExit(w) \/ ProcessCanceled(w) \/ AcquireCanceled(w)
    \/ \E j \in JobIds : JanitorReleaseCanceled(j)
    \/ pool.ctx = "canceled" /\ Tick

ShutdownSpec == ShutdownInit /\ [][ShutdownStep]_vars

\* ---------------------------------------------------------------- backoff
\* currentDelay := 1 * time.Second, and the value it is reset to (seconds)
StartDelay == 1
\* maxDelay := 60 * time.Second
MaxDelay == 60

\* consecutive empty polls counted per worker; more count as this many
MaxEmpties == 7

\* Worker.Start before its first iteration.  empties counts the empty polls
\* since the start or the last claimed job, slept is the length of the
\* sleep the worker is in.
FreshBackoff ==
    [pc |-> "poll", currentDelay |-> StartDelay, empties |-> 0, slept |-> 0]

BackoffInit ==
    /\ jobs = <<>>
    /\ hist = <<>>
    /\ workers = NewWorkerPool(0)
    /\ janitor = IdleJanitor
    /\ calls = NoCalls
    /\ pool = RunningPool
    /\ backoff = [w \in 1 .. NumWorkers |-> FreshBackoff]

\* one iteration in which pullJob returns a job: process it,
\* currentDelay = 1 s, then wait on time.After(currentDelay)
IterateWithJob(w) ==
    /\ backoff[w].pc = "poll"
    /\ backoff' = [backoff EXCEPT ![w] =
          [pc |-> "sleep", currentDelay |-> StartDelay, empties |-> 0,
           slept |-> StartDelay]]
    /\ UNCHANGED <<jobs, hist, workers, janitor, calls, pool>>

\* one iteration in which pullJob returns nil:
\* currentDelay = min(currentDelay*2, maxDelay), then wait on
\* time.After(currentDelay)
IterateEmpty(w) ==
    /\ backoff[w].pc = "poll"
    /\ LET d == Min(backoff[w].currentDelay * 2, MaxDelay) IN
         backoff' = [backoff EXCEPT ![w] =
            [pc |-> "sleep", currentDelay |-> d,
             empties |-> Min(@.empties + 1, MaxEmpties), slept |-> d]]
    /\ UNCHANGED <<jobs, hist, workers, janitor, calls, pool>>

\* case <-time.After(currentDelay): the loop goes round
WakeUp(w) ==
    /\ backoff[w].pc = "sleep"
    /\ backoff' = [backoff EXCEPT ![w] = [@ EXCEPT !.pc = "poll"]]
    /\ UNCHANGED <<jobs, hist, workers, janitor, calls, pool>>

BackoffStep ==
    \E w \in 1 .. NumWorkers :
        \/ IterateWithJob(w)
        \/ IterateEmpty(w)
        \/ WakeUp(w)

BackoffSpec == BackoffInit /\ [][BackoffStep]_vars

\* --------------------------------------------------------------- dispatch
\* Worker.process step by step: the handler runs, then the finalization
\* call(s).  calls[w] is the record of worker w's current process(job).
\* Worker.execute: the handler is chosen by the job's queue, "default"
\* counting as "email"; "" is the default branch (unknown queue).
HandlerOfQueue(queue) ==
    LET q == IF queue = "default" THEN "email" ELSE queue IN
      IF q = "email" THEN "SendEmailHandler"
      ELSE IF q = "payment" THEN "ProcessPaymentHandler"
      ELSE IF q = "webhooks" THEN "SendWebhookHandler"
      ELSE ""

\* the handler written for each job type
HandlerOfType(type) ==
    IF type = "send_email" THEN "SendEmailHandler"
    ELSE IF type = "process_payment" THEN "ProcessPaymentHandler"
    ELSE IF type = "send_webhook" THEN "SendWebhookHandler"
    ELSE ""

\* requests of the dispatch study: the worker's queues and two job types,
\* each with the payload of its type
DispatchDTOs ==
    {dto \in [queue : ClientQueues,
              type : {"send_email", "process_payment"},
              payload : {ClientPayload, PaymentPayload},
              maxRetries : {0},
              availableAt : {NULL}] : ValidationError(dto) = NULL}

\* no process(job) running
NoProcess ==
    [op |-> "process", job |-> 0, handler |-> "", failed |-> FALSE,
     final |-> <<>>, done |-> FALSE]

\* two jobs stored through JobService.CreateJob, the workers started
DispatchInit ==
    /\ \E d1, d2 \in DispatchDTOs :
          jobs = <<CreateRow(ServiceJobOf(d1)), CreateRow(ServiceJobOf(d2))>>
    /\ hist = <<NoHist, NoHist>>
    /\ workers = NewWorkerPool(NumWorkers)
    /\ janitor = IdleJanitor
    /\ calls = [w \in 1 .. NumWorkers |-> NoProcess]
    /\ pool = RunningPool
    /\ backoff = NoBackoff

\* res, err := w.execute(ctx, job): the handler of the job's queue runs and
\* returns a result or an error (the context was canceled); an unknown
\* queue is an error without a handler
Execute(w, failed) ==
    /\ w \in Workers
    /\ workers[w].pc = "exec"
    /\ LET j == workers[w].job
           h == HandlerOfQueue(jobs[j].queue)
       IN  /\ h = "" => failed
           /\ calls' = [calls EXCEPT ![w] =
                 [op |-> "process", job |-> j, handler |-> h,
                  failed |-> failed, final |-> <<>>, done |-> FALSE]]
    /\ workers' = [workers EXCEPT ![w] = [@ EXCEPT !.pc = "final"]]
    /\ UNCHANGED <<jobs, hist, janitor, pool, backoff>>

\* the rest of process after a handler error without the return of line
\* 68: RetryLater and then MarkCompleted
Finalize_NoReturn(w, storeErr) ==
    /\ w \in Workers
    /\ workers[w].pc = "final"
    /\ LET j == calls[w].job
           retry == [op |-> "RetryLater", id |-> j, availableAt |-> RetryDelay]
           mark == [op |-> "MarkCompleted", id |-> j, result |-> calls[w].handler]
       IN  /\ ~RowLocked(j)
           /\ calls' = [calls EXCEPT ![w] =
                 [@ EXCEPT !.final = IF calls[w].failed THEN <<retry, mark>>
                                     ELSE <<mark>>,
                           !.done = TRUE]]
           /\ jobs' = IF storeErr THEN jobs
                      ELSE [jobs EXCEPT ![j] =
                             MarkCompletedRow(IF calls[w].failed
                                              THEN RetryLaterRow(@, RetryDelay)
                                              ELSE @, calls[w].handler)]
           /\ hist' = IF storeErr THEN hist
                      ELSE [hist EXCEPT ![j] = [@ EXCEPT !.claimAge = NULL]]
    /\ workers' = [workers EXCEPT ![w] = NextIteration(@, TRUE)]
    /\ UNCHANGED <<janitor, pool, backoff>>

\* the rest of process: on an error RetryLater(job.ID, now + 10 s) and
\* return, else MarkCompleted(job.ID, result); storeErr: the call returns a
\* store error, which process ignores
Finalize(w, storeErr) ==
    /\ w \in Workers
    /\ workers[w].pc = "final"
    /\ LET j == calls[w].job
           retry == [op |-> "RetryLater", id |-> j, availableAt |-> RetryDelay]
           mark == [op |-> "MarkCompleted", id |-> j, result |-> calls[w].handler]
       IN  /\ ~RowLocked(j)
           /\ calls' = [calls EXCEPT ![w] =
                 [@ EXCEPT !.final = IF calls[w].failed THEN <<retry>>
                                     ELSE <<mark>>,
                           !.done = TRUE]]
           /\ jobs' = IF storeErr THEN jobs
                      ELSE [jobs EXCEPT ![j] =
                             IF calls[w].failed
                             THEN RetryLaterRow(@, RetryDelay)
                             ELSE MarkCompletedRow(@, calls[w].handler)]
           /\ hist' = IF storeErr THEN hist
                      ELSE [hist EXCEPT ![j] =
                             IF calls[w].failed
                             THEN [@ EXCEPT !.claims = 0, !.claimAge = NULL]
                             ELSE [@ EXCEPT !.claimAge = NULL]]
    /\ workers' = [workers EXCEPT ![w] = NextIteration(@, TRUE)]
    /\ UNCHANGED <<janitor, pool, backoff>>

\* AcquireNext as in the pool; calls is left alone by it
DispatchStep ==
    \E w \in PoolIds :
        \/ AcquireSelect(w)
        \/ AcquireCommit(w)
        \/ \E failed \in BOOLEAN : Execute(w, failed)
        \/ \E storeErr \in BOOLEAN : Finalize(w, storeErr)

DispatchSpec == DispatchInit /\ [][DispatchStep]_vars

\* ---------------------------------------------------------------- fairness
\* Time passes.  The janitor's ticker keeps firing; its Release, which waits
\* for a row lock, gets the row once the lock is free.
ClockFairness == SF_vars(Tick)

JanitorFairness(rows) ==
    /\ WF_vars(JanitorList)
    /\ \A j \in 1 .. rows : SF_vars(JanitorRelease(j))

\* A worker that has not died keeps looping, and its handler returns.
LoopFairness(w) ==
    /\ WF_vars(AcquireSelect(w))
    /\ WF_vars(AcquireCommit(w))
    /\ WF_vars(ProcessSuccess(w) \/ ProcessFailure(w))

FairBacklogSpec ==
    BacklogSpec /\ ClockFairness /\ LoopFairness(1) /\ JanitorFairness(BacklogJobs)

\* Where store calls may fail and workers may die, lease recovery rests on
\* less: a pullJob that was started returns, so that time goes on.
PullJobStep(w) == AcquireSelect(w) \/ AcquireCommit(w) \/ AcquireError(w)

FairReaperSpec ==
    SoloSpec /\ ClockFairness /\ WF_vars(PullJobStep(1)) /\ JanitorFairness(MaxJobs)

\* ----------------------------------------------------------------- helpers
Exists(j) == j <= Len(jobs)
HeldBy(w, j) == w \in Workers /\ workers[w].pc = "exec" /\ workers[w].job = j
Held(j) == \E w \in PoolIds : HeldBy(w, j)
Abandoned(j) == Exists(j) /\ jobs[j].status = StatusProcessing /\ ~Held(j)
Requeued(j) ==
    Exists(j) /\ jobs[j].status = JobStatusQueued
              /\ jobs[j].lockedAt = NULL /\ jobs[j].lockedBy = NULL
Due(j) ==
    Exists(j) /\ jobs[j].status = JobStatusQueued /\ jobs[j].availableAt <= 0
              /\ jobs[j].queue \in AllowedQueues
FailedWithError(j) ==
    Exists(j) /\ jobs[j].status = JobStatusFailed /\ jobs[j].error # ""

LeaseAge(j) == IF hist[j].claimAge = NULL THEN 0 ELSE CHOOSE t \in hist[j].claimAge : TRUE
\* claimed by AcquireNext and neither finalized nor released since
Unfinalized(j) ==
    Exists(j) /\ jobs[j].status = StatusProcessing /\ hist[j].claimAge # NULL
PollsQueueOf(w, j) == jobs[j].queue = WorkerQueues[workers[w].qi]
AloneInQueue(j) == \A k \in JobIds \ {j} : jobs[k].queue # jobs[j].queue

\* C1: a job is returned by at most one successful AcquireNext until a
\* Release or a RetryLater puts it back to queued.
C1_NoDoubleClaim == \A j \in JobIds : hist[j].claims <= 1

\* two AcquireNext transactions are open on the same queue at the same
\* moment, each holding its own row
C1_Witness ==
    \E w, v \in Workers :
        /\ w # v
        /\ workers[w].pc = "update" /\ workers[v].pc = "update"
        /\ workers[w].row # workers[v].row
        /\ jobs[workers[w].row].queue = jobs[workers[v].row].queue

\* C2: no two workers are inside the handler of the same job at the same
\* time.
C2_AtMostOneExecution ==
    \A j \in JobIds : Cardinality({w \in Workers : HeldBy(w, j)}) <= 1

\* C3: no step takes a job out of status completed.
C3_CompletedIsFinal ==
    [][\A j \in JobIds :
          jobs[j].status = JobStatusCompleted => jobs'[j].status = JobStatusCompleted]_vars

\* C4: status running implies locked_at and locked_by are set, and status
\* queued implies both are null.
C4_StatusMatchesLock ==
    \A j \in JobIds :
        /\ jobs[j].status = JobStatusRunning
              => (jobs[j].lockedAt # NULL /\ jobs[j].lockedBy # NULL)
        /\ jobs[j].status = JobStatusQueued
              => (jobs[j].lockedAt = NULL /\ jobs[j].lockedBy = NULL)

\* C5: a job that keeps being put back with a future available_at (its
\* handler fails again and again) and never completes eventually has status
\* failed with its error text set.
C5_FailingJobBecomesFailed ==
    \A j \in 1 .. BacklogJobs :
        ([]<>(Exists(j) /\ jobs[j].availableAt > 0)
            /\ [](Exists(j) => jobs[j].status # JobStatusCompleted))
        => <>FailedWithError(j)

\* C6: attempts never exceeds max_retries + 1, and a failed job has more
\* attempts than max_retries.
C6_AttemptsBounded ==
    \A j \in JobIds :
        /\ jobs[j].attempts <= jobs[j].maxRetries + 1
        /\ jobs[j].status = JobStatusFailed => jobs[j].attempts > jobs[j].maxRetries

\* C7: in a pool whose workers all keep running, every queued job of an
\* allowed queue whose available_at has come is eventually claimed and
\* handed to its handler.
C7_AtLeastOnce == \A j \in 1 .. BacklogJobs : Due(j) ~> Held(j)

\* C8: a claimed job that no worker is going to finalize (its worker died in
\* the handler, or the finalization call failed) eventually is back in
\* status queued with locked_at and locked_by cleared.
C8_NoJobStaysRunning == \A j \in 1 .. MaxJobs : Abandoned(j) ~> Requeued(j)

\* an abandoned job is on the janitor's stuck list, about to be released
C8_Witness ==
    \E j \in JobIds : Abandoned(j) /\ janitor.pc = "release" /\ j \in janitor.stuck

\* C9: once more than lockDuration has passed since a job was claimed and
\* nobody finalized or released it, an AcquireNext on its queue returns it
\* (stated for a job that is alone in its queue).
C9_ClaimTimeRecovery ==
    [][\A w \in Workers : \A j \in JobIds :
          (/\ AcquireSelect(w)
           /\ Unfinalized(j) /\ LeaseAge(j) > LockDuration
           /\ PollsQueueOf(w, j) /\ AloneInQueue(j))
          => (workers'[w].pc = "update" /\ workers'[w].row = j)]_vars

\* C10: once more than 2 * lockDuration has passed since a job was claimed
\* and nobody finalized or released it, the janitor's ListStuckJobs returns
\* it.
C10_ReaperRecoveryTime ==
    [][\A j \in JobIds :
          (JanitorList /\ Unfinalized(j) /\ LeaseAge(j) > StaleDuration)
          => j \in janitor'.stuck]_vars

\* (available_at, id) of k is not after that of j.  Two values clipped at
\* AgeCap are not told apart, so they count as ordered.
ClaimOrdered(k, j) ==
    \/ jobs[k].availableAt < jobs[j].availableAt
    \/ /\ jobs[k].availableAt = jobs[j].availableAt
       /\ (k <= j \/ jobs[k].availableAt = 0 - AgeCap)

\* C11: within one queue the jobs are claimed in (available_at, id) order:
\* when a claim of j commits, every job of j's queue that was claimed before
\* and is still claimed is not after j in that order.
C11_ClaimsInOrder ==
    [][\A w \in Workers :
          AcquireCommit(w) =>
             LET j == workers[w].row IN
               \A k \in JobIds \ {j} :
                  (jobs[k].queue = jobs[j].queue /\ Unfinalized(k))
                  => ClaimOrdered(k, j)]_vars

\* C12: AcquireNext never returns a job whose available_at is later than
\* now, whether the job was created for a later time or rescheduled by
\* RetryLater; and when the clock reaches available_at of a queued, unlocked
\* job, the job is claimable.
C12_NotBeforeAvailableAt ==
    [][/\ \A w \in Workers :
            AcquireCommit(w) => jobs[workers[w].row].availableAt <= 0
       /\ \A j \in JobIds :
            (Tick /\ Requeued(j) /\ jobs[j].availableAt = 1)
            => Claimable(j, jobs[j].queue)']_vars

\* the only job failed and was rescheduled by RetryLater to a later time;
\* the same worker has polled the job's queue since and got nothing
C12_Witness ==
    /\ Len(jobs) = 1
    /\ jobs[1].queue = WorkerQueues[1]
    /\ Requeued(1)
    /\ jobs[1].availableAt = RetryDelay
    /\ \E w \in Workers :
         workers[w].pc = "pull" /\ workers[w].soon /\ workers[w].qi = 2

\* C13: after a successful AcquireNext(queue, workerId, lease) the stored row
\* of the returned job has status running, locked_at set and
\* locked_by = workerId, and the job belongs to the requested queue.
C13_ClaimedRowIsRunning ==
    [][\A w \in Workers :
          AcquireCommit(w) =>
             LET j == workers[w].row IN
               /\ jobs'[j].status = JobStatusRunning
               /\ jobs'[j].lockedAt # NULL
               /\ jobs'[j].lockedBy = Some(w)
               /\ jobs'[j].queue = WorkerQueues[workers[w].qi]]_vars

\* C14: the locked_at written by a successful AcquireNext is the time of the
\* claim (the now its transaction read, txAge before the commit), so that
\* the lease expires at locked_at + lockDuration.
C14_LockedAtIsClaimTime ==
    [][\A w \in Workers :
          AcquireCommit(w) =>
             jobs'[workers[w].row].lockedAt = Some(0 - workers[w].txAge)]_vars

\* rows of queue q that match the WHERE clause of AcquireNext and are not
\* locked by the open transaction of a worker other than w
EligibleFor(w, q) ==
    {j \in JobIds :
        /\ Claimable(j, q)
        /\ ~\E v \in Workers \ {w} : workers[v].pc = "update" /\ workers[v].row = j}

\* C15: AcquireNext never waits on another transaction's row lock.  A worker
\* about to call it can always take its step, whatever rows other
\* transactions hold; the call picks the first eligible row that no other
\* transaction holds, and reports "no jobs available" when there is none
\* (an empty queue included).
C15_NeverWaitsOnRowLock ==
    [][\A w \in Workers :
          /\ workers[w].pc = "pull" => ENABLED AcquireSelect(w)
          /\ AcquireSelect(w) =>
               LET q == WorkerQueues[workers[w].qi] IN
                 IF EligibleFor(w, q) # {}
                 THEN /\ workers'[w].pc = "update"
                      /\ workers'[w].row \in EligibleFor(w, q)
                      /\ \A k \in EligibleFor(w, q) : Before(workers'[w].row, k)
                 ELSE workers'[w] = AfterMiss(workers[w])]_vars

\* worker w holds the row lock on the only job of the first queue in an
\* uncommitted AcquireNext while another worker has gone on to the next
\* queue
C15_Witness ==
    \E w, v \in Workers :
        /\ w # v
        /\ workers[w].pc = "update"
        /\ jobs[workers[w].row].queue = WorkerQueues[1]
        /\ AloneInQueue(workers[w].row)
        /\ workers[v].pc = "pull" /\ workers[v].qi = 2

\* C16: round trip.  Release of a job that AcquireNext returned leaves the
\* row with status queued and locked_at and locked_by null, and the row then
\* matches the WHERE clause of an AcquireNext on its queue again.
C16_ReleaseRoundTrip ==
    [][\A j \in JobIds :
          (Unfinalized(j) /\ RepoRelease(j)) =>
             /\ jobs'[j].status = JobStatusQueued
             /\ jobs'[j].lockedAt = NULL
             /\ jobs'[j].lockedBy = NULL
             /\ (j \in Candidates(jobs[j].queue))']_vars

\* a job AcquireNext has just returned, whose Release gives a row that
\* AcquireNext returns again
C16_Witness ==
    \E j \in JobIds :
        /\ Unfinalized(j) /\ LeaseAge(j) = 0
        /\ jobs[j].lockedBy # NULL
        /\ ENABLED (RepoRelease(j) /\ FirstCandidate(jobs[j].queue)' = j)

\* C17: Release, RetryLater and IncrementAttempts called with an id that
\* matches no job return no error and leave every job as it was.
C17_AbsentIdIsNoOp ==
    \A id \in RepoIds \ JobIds :
        /\ UpdateWhereIdErr(id) = ""
        /\ ENABLED RepoRelease(id)
        /\ ENABLED RepoRetryLater(id, RetryDelay)
        /\ ENABLED RepoIncrementAttempts(id)
        /\ ReleaseTable(id) = jobs
        /\ RetryLaterTable(id, RetryDelay) = jobs
        /\ IncrementAttemptsTable(id) = jobs

\* a claimed job with attempts counted exists, and a call of Release with
\* an id that matches no row is possible and changes nothing
C17_Witness ==
    /\ \E j \in JobIds : Unfinalized(j) /\ jobs[j].attempts > 0
    /\ \E id \in RepoIds \ JobIds :
         ENABLED (RepoRelease(id) /\ jobs' = jobs /\ hist' = hist)

\* C18: round trip.  For any job passed to Create, whatever status the
\* caller put in it, Get of the assigned id (that of the last row after the
\* insert) returns the same queue, type,
\* payload and max_retries, status queued and attempts 0; available_at is
\* the caller's value when it was set and the creation time (0) when it was
\* the zero time.
C18_CreateGetRoundTrip ==
    [][\A job \in CallerJobs :
          RepoCreate(job) =>
             \E got \in Get(Len(jobs))' :
                /\ got.queue = job.queue
                /\ got.type = job.type
                /\ got.payload = job.payload
                /\ got.maxRetries = job.maxRetries
                /\ got.status = JobStatusQueued
                /\ got.attempts = 0
                /\ got.availableAt = IF job.availableAt = NULL THEN 0
                                     ELSE CHOOSE t \in job.availableAt : TRUE]_vars

Returned == {c \in DOMAIN calls : calls[c].pc = "done"}

\* C20: IncrementAttempts is atomic.  Whatever the interleaving of the
\* concurrent calls on one job id, the job's attempts is higher than before
\* (0 for a new job) by the number of calls that have returned, so when all
\* n have returned it is exactly n higher; no other job's attempts changes.
C20_NoLostIncrement ==
    \A c \in DOMAIN calls :
        /\ jobs[calls[c].id].attempts = Cardinality(Returned)
        /\ \A j \in JobIds \ {calls[c].id} : jobs[j].attempts = 0

\* one request has returned and two more, which came in together after it,
\* are in flight at the same time
C20_Witness ==
    \E c, d, e \in DOMAIN calls :
        /\ c # d
        /\ calls[c].pc = "update" /\ calls[d].pc = "update"
        /\ calls[c].seen = 1 /\ calls[d].seen = 1
        /\ calls[e].pc = "done"

\* C21: for a handler execution that ends in failure the worker calls
\* IncrementAttempts exactly once before it reschedules the job: the step
\* that reschedules the failed job leaves its attempts one higher.
C21_FailureCountsAttempt ==
    [][\A w \in Workers :
          ProcessFailure(w) =>
             LET j == workers[w].job IN
               jobs'[j].attempts = jobs[j].attempts + 1]_vars

\* C22: for a job stored with max_retries = 0 the first handler failure
\* moves the job to status failed; the job is not put back to queued for
\* another attempt.
C22_ZeroRetriesFailsAtOnce ==
    [][\A w \in Workers :
          (ProcessFailure(w) /\ jobs[workers[w].job].maxRetries = 0) =>
             jobs'[workers[w].job].status = JobStatusFailed]_vars

\* C23: when the context is canceled while a worker is inside a handler,
\* that worker makes no finalization call (MarkCompleted or RetryLater) for
\* the job with the canceled context.
C23_NoFinalizeAfterCancel ==
    [][\A w \in Workers :
          (pool.ctx = "canceled" /\ workers[w].pc = "exec")
          => ~(ProcessSuccess(w) \/ ProcessFailure(w) \/ ProcessStoreError(w))]_vars

\* C24: when Stop has returned, the janitor goroutine and every worker
\* goroutine have terminated.
C24_StopJoinsAll ==
    pool.stop = "returned" =>
        /\ janitor.pc = "stopped"
        /\ \A w \in Workers : workers[w].pc = "stopped"

\* C25: the job JobService.CreateJob passes to the repository has
\* max_retries = 3 when the request's max_retries is 0 (or absent) and the
\* request's value otherwise, attempts = 0, and the request's available_at
\* when the request has one.
C25_ServiceDefaults ==
    \A i \in DOMAIN calls :
        (calls[i].op = "CreateJob" /\ calls[i].passed # NULL) =>
           \E job \in calls[i].passed :
              /\ job.maxRetries = IF calls[i].dto.maxRetries = 0 THEN 3
                                  ELSE calls[i].dto.maxRetries
              /\ job.attempts = 0
              /\ calls[i].dto.availableAt # NULL
                    => job.availableAt = calls[i].dto.availableAt

\* a request without max_retries and with an available_at has been stored
C25_Witness ==
    /\ Len(jobs) = 1
    /\ jobs[1].maxRetries = 3 /\ jobs[1].availableAt = MaxSchedule
    /\ \E i \in DOMAIN calls :
         /\ calls[i].op = "CreateJob" /\ calls[i].err = NULL
         /\ calls[i].dto.maxRetries = 0 /\ calls[i].dto.availableAt # NULL

\* a request CreateJob has to reject: payload not valid JSON, queue or type
\* not in its allow-list, or payload not matching the type's schema
Rejected(dto) ==
    \/ ~JSONValid(dto.payload)
    \/ dto.queue \notin AllowedQueues
    \/ dto.type \notin AllowedJobTypes
    \/ ~PayloadFits(dto.type, dto.payload)

\* C26: when JobService.CreateJob rejects a request for one of these
\* reasons it returns a validation error (400) and does not call the
\* repository's Create; the stored jobs are unchanged.  (calls' is the
\* request the step answers.)
C26_RejectedNeverStored ==
    [][\A i \in DOMAIN calls' :
          (/\ calls'[i].op = "CreateJob"
           /\ calls'[i].ctxErr = ""
           /\ Rejected(calls'[i].dto)) =>
             /\ jobs' = jobs
             /\ calls'[i].err = Some(400)
             /\ calls'[i].passed = NULL]_vars

\* with one job stored, a request with a known queue and type and a JSON
\* payload that does not match the type's schema has been answered with 400
C26_Witness ==
    /\ Len(jobs) = 1
    /\ \E i \in DOMAIN calls :
         /\ calls[i].op = "CreateJob"
         /\ calls[i].dto.queue \in AllowedQueues
         /\ calls[i].dto.type \in AllowedJobTypes
         /\ JSONValid(calls[i].dto.payload)
         /\ Rejected(calls[i].dto)
         /\ calls[i].err = Some(400) /\ calls[i].passed = NULL

\* C27: every answer of a JobService operation whose repository call failed
\* carries 408 when the repository error is a context cancellation or
\* deadline, 404 when GetJobByID got a not-found error, and 500 otherwise.
C27_RepoErrorMapping ==
    \A i \in DOMAIN calls :
        (calls[i].ctxErr = "" /\ calls[i].repoErr # "") =>
            calls[i].err =
                IF calls[i].repoErr \in {"canceled", "deadline"} THEN Some(408)
                ELSE IF calls[i].op = "GetJobByID" /\ calls[i].repoErr = "notfound"
                     THEN Some(404)
                ELSE Some(500)

\* GetJobByID asked for an id no row has, while another row is stored, and
\* answered 404
C27_Witness ==
    \E i \in DOMAIN calls :
        /\ calls[i].op = "GetJobByID"
        /\ calls[i].repoErr = "notfound"
        /\ calls[i].id \notin JobIds
        /\ Len(jobs) > 0
        /\ calls[i].err = Some(StatusNotFound)

\* C28: in every reachable state every stored job's status is one of queued,
\* running, completed, failed.
C28_StatusInDomain ==
    \A j \in JobIds :
        jobs[j].status \in {JobStatusQueued, JobStatusRunning,
                            JobStatusCompleted, JobStatusFailed}

\* C29: the row a successful AcquireNext(queue) selects is minimal in
\* (available_at, id) among the rows of that queue that are queued, have
\* available_at <= now, have no unexpired lock (locked_at null or older than
\* now - lockDuration) and are not row-locked by another open transaction.
C29_ReturnsMinimalEligible ==
    [][\A w \in Workers :
          (workers[w].pc = "pull" /\ workers'[w].pc = "update") =>
             LET q == WorkerQueues[workers[w].qi]
                 got == workers'[w].row
                 ok(j) == /\ jobs[j].queue = q
                          /\ jobs[j].status = "queued"
                          /\ jobs[j].availableAt <= 0
                          /\ \A t \in jobs[j].lockedAt : t < 0 - LockDuration
                          /\ \A v \in Workers \ {w} :
                                ~(workers[v].pc = "update" /\ workers[v].row = j)
             IN  /\ got \in JobIds
                 /\ ok(got)
                 /\ \A k \in JobIds :
                       ok(k) => \/ jobs[got].availableAt < jobs[k].availableAt
                                \/ /\ jobs[got].availableAt = jobs[k].availableAt
                                   /\ got <= k]_vars

\* an open AcquireNext holds a row although a row with a smaller id in the
\* same queue is queued, due, unlocked and free: the selected one became
\* available earlier
C29_Witness ==
    \E w \in Workers : \E k \in JobIds :
        /\ workers[w].pc = "update"
        /\ k < workers[w].row
        /\ jobs[k].queue = jobs[workers[w].row].queue
        /\ jobs[k].status = JobStatusQueued
        /\ jobs[k].lockedAt = NULL
        /\ ~RowLocked(k)
        /\ jobs[k].availableAt <= 0
        /\ jobs[workers[w].row].availableAt < jobs[k].availableAt

\* 2^n
RECURSIVE Pow2(_)
Pow2(n) == IF n = 0 THEN 1 ELSE 2 * Pow2(n - 1)

\* C30: a worker's sleep after the first empty poll since its start or its
\* last claimed job is 1 s, each further consecutive empty poll doubles it,
\* it never exceeds 60 s, and the sleep after a claimed job is 1 s again.
C30_BackoffSchedule ==
    \A w \in DOMAIN backoff :
        backoff[w].pc = "sleep" =>
            /\ backoff[w].slept <= 60
            /\ backoff[w].empties = 0 => backoff[w].slept = 1
            /\ backoff[w].empties > 0 =>
                  backoff[w].slept = Min(Pow2(backoff[w].empties - 1), 60)

\* C31: every handler execution by a worker is followed by exactly one
\* finalization call for that job: MarkCompleted(id, result) when the
\* handler succeeded, RetryLater(id, now + 10 s) when it failed, never both.
C31_OneFinalization ==
    \A w \in DOMAIN calls :
        /\ (calls[w].op = "process" /\ calls[w].done) =>
              /\ Len(calls[w].final) = 1
              /\ calls[w].final[1].id = calls[w].job
              /\ calls[w].failed =>
                    /\ calls[w].final[1].op = "RetryLater"
                    /\ calls[w].final[1].availableAt = 1
              /\ ~calls[w].failed => calls[w].final[1].op = "MarkCompleted"
        /\ (calls[w].op = "process" /\ calls[w].job # 0 /\ ~calls[w].done) =>
              /\ workers[w].pc = "final"
              /\ ENABLED (\E storeErr \in BOOLEAN : Finalize(w, storeErr))

\* one worker has finalized a failed execution and the other a successful
\* one
C31_Witness ==
    \E w, v \in DOMAIN calls :
        /\ calls[w].op = "process" /\ calls[w].done /\ calls[w].failed
        /\ calls[v].op = "process" /\ calls[v].done /\ ~calls[v].failed
        /\ jobs[calls[w].job].status = JobStatusQueued
        /\ jobs[calls[v].job].status = JobStatusCompleted

\* C37: every job a worker executes is executed by the handler of the job's
\* type, for every combination of allowed queue and allowed type that
\* JobService.CreateJob accepts.
C37_HandlerOfJobType ==
    \A w \in DOMAIN calls :
        (calls[w].op = "process" /\ calls[w].job # 0) =>
            calls[w].handler = HandlerOfType(jobs[calls[w].job].type)

\* C32: when the worker's MarkCompleted or RetryLater call fails with a
\* store error, the job keeps status running with its lock fields set and
\* the worker continues its loop; the job is then one the reaper returns to
\* queued (it is claimed, held by no worker, and stays so until released).
C32_FailedFinalizationLeavesRunning ==
    [][\A w \in Workers :
          ProcessStoreError(w) =>
             LET j == workers[w].job IN
               /\ jobs'[j].status = JobStatusRunning
               /\ jobs'[j].lockedAt # NULL
               /\ jobs'[j].lockedBy # NULL
               /\ workers'[w].pc = "pull"
               /\ ~(\E v \in Workers : workers'[v].pc = "exec" /\ workers'[v].job = j)]_vars

\* C33: when AcquireNext fails with a store error, timeout or cancellation
\* the worker treats it like an empty queue: it goes on to the next queue of
\* its list, or, after the last queue, ends the iteration without a job
\* (backs off) and polls the first queue again; no job is changed and the
\* failed transaction holds no row (pc "pull": the worker polls again).
C33_FailedClaimIsEmptyPoll ==
    [][\A w \in Workers :
          AcquireError(w) =>
             /\ jobs' = jobs
             /\ workers'[w].pc = "pull"
             /\ workers'[w].row = 0 /\ workers'[w].job = 0
             /\ IF workers[w].qi < Len(WorkerQueues)
                THEN workers'[w].qi = workers[w].qi + 1
                ELSE workers'[w].qi = 1 /\ ~workers'[w].soon]_vars

\* a worker whose claim on the first queue failed after it had selected a
\* row is polling the second queue; the row is still queued and unlocked
C33_Witness ==
    \E w \in Workers : \E j \in JobIds :
        /\ workers[w].pc = "pull" /\ workers[w].qi = 2
        /\ jobs[j].queue = WorkerQueues[1]
        /\ Claimable(j, WorkerQueues[1])
        /\ ~RowLocked(j)
        /\ hist[j].claims = 0

\* C38: once shutdown has been signaled to a worker (its context canceled,
\* its quit channel closed), that worker starts no new AcquireNext.
C38_NoAcquireAfterShutdown ==
    [][\A w \in Workers :
          (pool.ctx = "canceled" /\ workers[w].pc = "pull") =>
             ~(AcquireSelect(w) \/ AcquireError(w))]_vars

\* C34: UpdateStatus(id, status) changes only the status of job id: its
\* locked_at, locked_by, attempts, available_at, result and error, and every
\* other job, are unchanged.
C34_UpdateStatusFrame ==
    [][\A j \in JobIds : \A status \in RepoStatuses :
          RepoUpdateStatus(j, status) =>
             /\ jobs'[j].status = status
             /\ jobs'[j].lockedAt = jobs[j].lockedAt
             /\ jobs'[j].lockedBy = jobs[j].lockedBy
             /\ jobs'[j].attempts = jobs[j].attempts
             /\ jobs'[j].availableAt = jobs[j].availableAt
             /\ jobs'[j].result = jobs[j].result
             /\ jobs'[j].error = jobs[j].error
             /\ Len(jobs') = Len(jobs)
             /\ \A k \in JobIds \ {j} : jobs'[k] = jobs[k]]_vars

\* a claimed job was set to failed and still carries its lock columns, next
\* to a second job
C34_Witness ==
    \E j \in JobIds :
        /\ jobs[j].status = JobStatusFailed
        /\ jobs[j].lockedAt # NULL
        /\ jobs[j].lockedBy = Some(1)
        /\ Len(jobs) > 1

\* C35: RetryLater(id, availableAt) sets status = queued, available_at =
\* availableAt, locked_at = null and locked_by = null on job id and changes
\* nothing else: attempts, max_retries, payload, result and error of that
\* job, and every other job, are unchanged.
C35_RetryLaterFrame ==
    [][\A id \in JobIds : \A availableAt \in {0, RetryDelay} :
          RepoRetryLater(id, availableAt) =>
             /\ jobs'[id].status = "queued"
             /\ jobs'[id].availableAt = availableAt
             /\ jobs'[id].lockedAt = NULL
             /\ jobs'[id].lockedBy = NULL
             /\ jobs'[id].attempts = jobs[id].attempts
             /\ jobs'[id].maxRetries = jobs[id].maxRetries
             /\ jobs'[id].payload = jobs[id].payload
             /\ jobs'[id].result = jobs[id].result
             /\ jobs'[id].error = jobs[id].error
             /\ jobs'[id].queue = jobs[id].queue
             /\ jobs'[id].type = jobs[id].type
             /\ Len(jobs') = Len(jobs)
             /\ \A k \in JobIds \ {id} : jobs'[k] = jobs[k]]_vars

\* a job with an attempt counted and a result and an error saved was put
\* back for a later run, next to a job that is still claimed
C35_Witness ==
    \E j, k \in JobIds :
        /\ j # k
        /\ jobs[j].status = JobStatusQueued
        /\ jobs[j].availableAt = RetryDelay
        /\ jobs[j].lockedAt = NULL /\ jobs[j].lockedBy = NULL
        /\ jobs[j].attempts = 1
        /\ jobs[j].result = Some("ok") /\ jobs[j].error = "boom"
        /\ jobs[k].status = StatusProcessing /\ jobs[k].lockedBy = Some(1)

\* C36: the reaper only reclaims stale leases.  When the janitor's
\* Release(id) takes effect, job id is claimed (status running; the text
\* AcquireNext stores counts as such here) and was claimed more than
\* 2 * lockDuration earlier; a job finalized or claimed again since
\* ListStuckJobs is not released.
C36_ReaperReleasesOnlyStale ==
    [][\A j \in JobIds :
          JanitorRelease(j) =>
             /\ jobs[j].status \in {JobStatusRunning, StatusProcessing}
             /\ hist[j].claimAge # NULL
             /\ LeaseAge(j) > StaleDuration]_vars

\* C39: a worker's finalization only affects a job it still owns.  A
\* MarkCompleted or RetryLater issued by worker w for job j changes row j
\* only if j is claimed (status running; the text AcquireNext stores counts
\* as such here) with locked_by = w at that moment.
C39_FinalizeOnlyOwned ==
    [][\A w \in Workers :
          ((ProcessSuccess(w) \/ ProcessFailure(w))
              /\ jobs'[workers[w].job] # jobs[workers[w].job]) =>
             /\ jobs[workers[w].job].status \in {JobStatusRunning, StatusProcessing}
             /\ jobs[workers[w].job].lockedBy = Some(w)]_vars

\* jobs stored as claimed by worker w (the status AcquireNext writes, or
\* running) with locked_by = w
ClaimedBy(w) ==
    {j \in JobIds : /\ jobs[j].status \in {JobStatusRunning, StatusProcessing}
                    /\ jobs[j].lockedBy = Some(w)}

\* C40 as stated: in every reachable state at most one job is running with
\* locked_by = w, for each worker w of the pool.
C40_OneRunningJobPerWorker ==
    \A w \in Workers : Cardinality(ClaimedBy(w)) <= 1

\* C40, amended: worker ids are 1 .. N; a worker is in the handler of at
\* most one job, it commits a claim only when it is in no handler, and every
\* finalization call the store accepts leaves the job it handled unlocked
\* and not running.  (A job whose finalization call failed stays claimed
\* with locked_by = w while w claims its next one.)
C40_OneJobInHand ==
    /\ [](/\ Workers = 1 .. Len(workers)
          /\ \A w \in Workers :
                Cardinality({j \in JobIds : HeldBy(w, j)}) <= 1)
    /\ [][\A w \in Workers :
            /\ AcquireCommit(w) => workers[w].job = 0
            /\ (ProcessSuccess(w) \/ ProcessFailure(w)) =>
                  /\ jobs'[workers[w].job].lockedBy = NULL
                  /\ jobs'[workers[w].job].lockedAt = NULL
                  /\ jobs'[workers[w].job].status
                        \notin {JobStatusRunning, StatusProcessing}
                  /\ workers'[w].job = 0]_vars

\* a worker is in the handler of one job while an earlier job is still
\* stored as claimed by it
C40_Witness ==
    \E w \in Workers : \E j, k \in ClaimedBy(w) :
        /\ j # k
        /\ HeldBy(w, j)
        /\ ~Held(k)

====
